---- MODULE Spec2Model ----
(***************************************************************************)
(* Model of services/kugelaudio-tts/app.py: the KugelAudio TTS sidecar.    *)
(*                                                                         *)
(* The handlers are coroutines of one asyncio event loop.  A coroutine      *)
(* keeps the loop from the moment it is dispatched until it suspends at an  *)
(* await that cannot complete at once, or returns.  In app.py the only      *)
(* await is the entry of "async with GENERATE_LOCK" (line 134);             *)
(* PROCESSOR(...), MODEL.generate(...) and sf.write(...) are plain calls.   *)
(*                                                                         *)
(* Strings are sequences of one-character strings, Optional[T] is <<>> for  *)
(* None and <<x>> for a value x, a float is a record (see Fl, NaN).         *)
(***************************************************************************)
EXTENDS Integers, Sequences, FiniteSets, TLC

\* ------------------------------------------------------------ bounds
\* Number of request slots: tts calls that can be in flight at once.
NumReqs == 2

\* ------------------------------------------------------------ values
None == <<>>
Some(x) == <<x>>

Fl(n) == [tag |-> "fin", v |-> n]
NaN == [tag |-> "nan", v |-> 0]

\* Python truthiness and comparison of a float (NaN is truthy, NaN > 0 is False).
float_truthy(f) == ~(f.tag = "fin" /\ f.v = 0)
float_gt0(f) == f.tag = "fin" /\ f.v > 0
float_le0(f) == f.tag = "fin" /\ f.v <= 0

IsSpace(c) == c \in {" ", "\t"}
IsDigit(c) == c \in {"0", "1", "2", "3", "4", "5", "6", "7", "8", "9"}
DigitVal(c) ==
  CASE c = "0" -> 0 [] c = "1" -> 1 [] c = "2" -> 2 [] c = "3" -> 3
    [] c = "4" -> 4 [] c = "5" -> 5 [] c = "6" -> 6 [] c = "7" -> 7
    [] c = "8" -> 8 [] c = "9" -> 9

RECURSIVE lstrip(_)
lstrip(s) == IF s # <<>> /\ IsSpace(Head(s)) THEN lstrip(Tail(s)) ELSE s

RECURSIVE rstrip(_)
rstrip(s) ==
  IF s # <<>> /\ IsSpace(s[Len(s)]) THEN rstrip(SubSeq(s, 1, Len(s) - 1)) ELSE s

\* str.strip()
strip(s) == rstrip(lstrip(s))

\* str.lower() on the letters the device names use
LowerChar(c) ==
  CASE c = "C" -> "c" [] c = "U" -> "u" [] c = "D" -> "d" [] c = "A" -> "a"
    [] c = "P" -> "p" [] c = "M" -> "m" [] c = "S" -> "s" [] OTHER -> c
lower(s) == [i \in 1..Len(s) |-> LowerChar(s[i])]

\* str.startswith
startswith(s, p) == Len(s) >= Len(p) /\ SubSeq(s, 1, Len(p)) = p

RECURSIVE DigitsVal(_)
DigitsVal(s) ==
  IF s = <<>> THEN 0 ELSE 10 * DigitsVal(SubSeq(s, 1, Len(s) - 1)) + DigitVal(s[Len(s)])

\* int(str): surrounding whitespace and one sign are accepted, then decimal
\* digits; anything else raises ValueError (ok = FALSE).
py_int(s) ==
  LET t == strip(s)
      neg == t # <<>> /\ Head(t) = "-"
      body == IF t # <<>> /\ Head(t) \in {"-", "+"} THEN Tail(t) ELSE t
      ok == body # <<>> /\ \A i \in 1..Len(body) : IsDigit(body[i])
  IN  [ok |-> ok,
       v |-> IF ok THEN (IF neg THEN 0 - DigitsVal(body) ELSE DigitsVal(body)) ELSE 0]

\* float(str) on integer literals and "nan"; anything else raises ValueError.
py_float(s) ==
  LET t == lower(strip(s))
      body == IF t # <<>> /\ Head(t) \in {"-", "+"} THEN Tail(t) ELSE t
      p == py_int(s)
  IN  IF body = <<"n", "a", "n">> THEN [ok |-> TRUE, f |-> NaN]
      ELSE [ok |-> p.ok, f |-> Fl(p.v)]

\* ------------------------------------------------------------ lines 20-41
\* Mutant of parse_positive_int: the check of lines 25-26 is missing.
parse_positive_int_unchecked(value, fallback) ==
  IF value = None THEN fallback
  ELSE LET p == py_int(value[1])
       IN  IF ~p.ok THEN fallback ELSE p.v

parse_positive_int(value, fallback) ==
  IF value = None THEN fallback
  ELSE LET p == py_int(value[1])
       IN  IF ~p.ok THEN fallback
           ELSE IF p.v <= 0 THEN fallback
           ELSE p.v

parse_positive_float(value, fallback) ==
  IF value = None THEN fallback
  ELSE LET p == py_float(value[1])
       IN  IF ~p.ok THEN fallback
           ELSE IF float_le0(p.f) THEN fallback
           ELSE p.f

\* ------------------------------------------------------------ state
VARIABLES
  environ,        \* os.environ: the KUGELAUDIO_* variables, each Optional[str]
  cuda,           \* torch.cuda.is_available()
  MODEL,          \* None or Some("model")
  PROCESSOR,      \* None or Some("processor")
  DEVICE,         \* the module global DEVICE, a string
  GENERATE_LOCK,  \* asyncio.Lock: [locked, waiters]
  running,        \* the coroutine that has the event loop: None or Some(r)
  ready,          \* the event loop's FIFO of coroutines to dispatch
  task,           \* per slot: the tts coroutine's position, locals and result
  health,         \* the healthz response in flight: None or Some(response)
  loadlog         \* history of ensure_loaded: the number of loads that succeeded
                  \* and how the last call that tried to load ended

vars == <<environ, cuda, MODEL, PROCESSOR, DEVICE, GENERATE_LOCK, running, ready,
          task, health, loadlog>>

Reqs == 1..NumReqs

\* ------------------------------------------------------------ lines 44-48
DefaultModelId == <<"k", "0">>
DefaultTextMaxChars == 4000
DefaultCfgScale == 3
DefaultMaxTokens == 2048

or_empty(v) == IF v = None THEN <<>> ELSE v[1]

MODEL_ID ==
  LET s == strip(IF environ.MODEL_ID = None THEN DefaultModelId ELSE environ.MODEL_ID[1])
  IN  IF s # <<>> THEN s ELSE DefaultModelId
TEXT_MAX_CHARS == parse_positive_int(environ.TEXT_MAX_CHARS, DefaultTextMaxChars)
DEFAULT_CFG_SCALE == parse_positive_float(environ.DEFAULT_CFG_SCALE, Fl(DefaultCfgScale))
DEFAULT_MAX_TOKENS == parse_positive_int(environ.DEFAULT_MAX_TOKENS, DefaultMaxTokens)
DEFAULT_VOICE ==
  LET s == strip(or_empty(environ.DEFAULT_VOICE))
  IN  IF s # <<>> THEN Some(s) ELSE None

\* ------------------------------------------------------------ lines 63-69
Cpu == <<"c", "p", "u">>
Cuda == <<"c", "u", "d", "a">>

\* Mutant of resolve_device: the availability check of line 66 is missing.
resolve_device_unchecked ==
  LET configured == lower(strip(or_empty(environ.DEVICE)))
  IN  IF configured # <<>> THEN configured
      ELSE IF cuda THEN Cuda ELSE Cpu

resolve_device ==
  LET configured == lower(strip(or_empty(environ.DEVICE)))
  IN  IF configured # <<>>
      THEN IF startswith(configured, Cuda) /\ ~cuda THEN Cpu ELSE configured
      ELSE IF cuda THEN Cuda ELSE Cpu

\* ------------------------------------------------------------ lines 56-60
\* TtsRequest.  pydantic has already rejected a text of length 0 (min_length=1).
Texts == {<<" ">>, <<"a">>, <<" ", "a", " ">>, <<"a", "b">>}
Voices == {None, Some(<<" ">>), Some(<<" ", "v">>)}
CfgScales == {None, Some(Fl(0)), Some(Fl(-1)), Some(Fl(5)), Some(NaN)}
MaxTokenses == {None, Some(0), Some(-1), Some(7)}

TtsRequest(text, voice, cfgScale, maxTokens) ==
  [text |-> text, voice |-> voice, cfgScale |-> cfgScale, maxTokens |-> maxTokens]

\* every request of the value sets above
AllPayloads ==
  {TtsRequest(t, v, c, m) : t \in Texts, v \in Voices, c \in CfgScales, m \in MaxTokenses}

\* the requests of the concurrency specification: one per validation outcome
Payloads ==
  {TtsRequest(t, None, None, None) : t \in {<<" ">>, <<" ", "a", " ">>, <<"a", "b">>}}

\* What the processor, the engine, numpy and soundfile can raise inside the try.
Exceptions ==
  {[type |-> "ValueError", msg |-> "bad value", status |-> 0],
   [type |-> "RuntimeError", msg |-> "engine failed", status |-> 0],
   [type |-> "HTTPException", msg |-> "upstream", status |-> 429]}

Outcomes == {None} \cup {Some(e) : e \in Exceptions}

\* a response: status code, media type and the detail (message, number in it,
\* message of the wrapped exception)
Response(status, msg, num, cause) ==
  [status |-> status,
   media |-> IF status = 200 THEN "audio/wav" ELSE "application/json",
   msg |-> msg, num |-> num, cause |-> cause]

NoPayload == TtsRequest(<<>>, None, None, None)

IdleTask ==
  [pc |-> "idle", payload |-> NoPayload, loaded |-> FALSE,
   text |-> <<>>, voice |-> None, cfg_scale |-> Fl(0), max_tokens |-> 0,
   acquired |-> 0, procCalls |-> <<>>, genCalls |-> <<>>,
   exc |-> None, result |-> None, gone |-> None]

\* ------------------------------------------------------------ environments
Env(modelId, textMax, cfg, maxTok, voice, device) ==
  [MODEL_ID |-> modelId, TEXT_MAX_CHARS |-> textMax, DEFAULT_CFG_SCALE |-> cfg,
   DEFAULT_MAX_TOKENS |-> maxTok, DEFAULT_VOICE |-> voice, DEVICE |-> device]

Environments ==
  {Env(None, t, None, None, None, None) : t \in {None, Some(<<"1">>)}}

ParamEnvironments ==
  {Env(None, None, c, m, v, None) :
     c \in {None, Some(<<"2">>), Some(<<"0">>), Some(<<"x">>), Some(<<"n", "a", "n">>)},
     m \in {None, Some(<<" ", "9">>), Some(<<"-", "4">>)},
     v \in {None, Some(<<" ">>), Some(<<"d", " ">>)}}

\* ------------------------------------------------------------ event loop
OnLoop(r) == running = Some(r)
Dispatched(r) == running = None /\ ready # <<>> /\ Head(ready) = r
LoopIdle == running = None

Remove(q, r) == SelectSeq(q, LAMBDA x : x # r)

\* ------------------------------------------------------------ lines 72-93
\* ensure_loaded(); from_pretrained of the model or of the processor may raise.
LoadOutcomes == {"ok", "model_raises", "processor_raises"}

\* Mutant of ensure_loaded: the early return of lines 77-78 is missing.
ensure_loaded_reloading ==
  /\ LoopIdle
  /\ DEVICE' = resolve_device
  /\ \E outcome \in LoadOutcomes :
       /\ loadlog' = [loads |-> IF outcome = "ok" THEN loadlog.loads + 1
                                ELSE loadlog.loads,
                      last |-> outcome]
       /\ IF outcome = "ok"
          THEN MODEL' = Some("model") /\ PROCESSOR' = Some("processor")
          ELSE UNCHANGED <<MODEL, PROCESSOR>>
  /\ UNCHANGED <<environ, cuda, GENERATE_LOCK, running, ready, task, health>>

\* Mutant of ensure_loaded: the model is stored in the global MODEL as soon as
\* it is loaded, before the processor is.
ensure_loaded_publishing_early ==
  /\ LoopIdle
  /\ IF MODEL # None /\ PROCESSOR # None
     THEN UNCHANGED <<MODEL, PROCESSOR, DEVICE, loadlog>>
     ELSE /\ DEVICE' = resolve_device
          /\ \E outcome \in LoadOutcomes :
               /\ loadlog' = [loads |-> IF outcome = "ok" THEN loadlog.loads + 1
                                        ELSE loadlog.loads,
                              last |-> outcome]
               /\ MODEL' = IF outcome = "model_raises" THEN MODEL ELSE Some("model")
               /\ PROCESSOR' = IF outcome = "ok" THEN Some("processor") ELSE PROCESSOR
  /\ UNCHANGED <<environ, cuda, GENERATE_LOCK, running, ready, task, health>>

\* lines 72-93.  The call is made on the event loop (lifespan, line 98) and
\* does not await.  DEVICE is assigned at line 80, before the loads; the
\* locals model and processor become MODEL and PROCESSOR at lines 92-93.
ensure_loaded ==
  /\ LoopIdle
  /\ IF MODEL # None /\ PROCESSOR # None
     THEN UNCHANGED <<MODEL, PROCESSOR, DEVICE, loadlog>>
     ELSE /\ DEVICE' = resolve_device
          /\ \E outcome \in LoadOutcomes :
               /\ loadlog' = [loads |-> IF outcome = "ok" THEN loadlog.loads + 1
                                        ELSE loadlog.loads,
                              last |-> outcome]
               /\ IF outcome = "ok"
                  THEN MODEL' = Some("model") /\ PROCESSOR' = Some("processor")
                  ELSE UNCHANGED <<MODEL, PROCESSOR>>
  /\ UNCHANGED <<environ, cuda, GENERATE_LOCK, running, ready, task, health>>

\* Mutant of healthz: the handler loads the engine before it reports.
healthz_loading ==
  /\ LoopIdle
  /\ health = None
  /\ DEVICE' = resolve_device
  /\ MODEL' = Some("model")
  /\ PROCESSOR' = Some("processor")
  /\ health' = Some([ok |-> TRUE, model |-> MODEL_ID, device |-> DEVICE'])
  /\ UNCHANGED <<environ, cuda, GENERATE_LOCK, running, ready, task, loadlog>>

\* ------------------------------------------------------------ lines 109-115
healthz ==
  /\ LoopIdle
  /\ health = None
  /\ health' = Some([ok |-> MODEL # None /\ PROCESSOR # None,
                     model |-> MODEL_ID,
                     device |-> DEVICE])
  /\ UNCHANGED <<environ, cuda, MODEL, PROCESSOR, DEVICE, GENERATE_LOCK, running,
                 ready, task, loadlog>>

\* the client has read the healthz response
healthz_return ==
  /\ health # None
  /\ health' = None
  /\ UNCHANGED <<environ, cuda, MODEL, PROCESSOR, DEVICE, GENERATE_LOCK, running,
                 ready, task, loadlog>>

\* ------------------------------------------------------------ lines 118-169
frame == <<environ, cuda, MODEL, PROCESSOR, DEVICE, health, loadlog>>

\* POST /v1/tts arrives: the framework creates the task that will run tts(payload).
tts_request(r, p) ==
  /\ LoopIdle
  /\ task[r].pc = "idle"
  /\ task' = [task EXCEPT ![r] = [IdleTask EXCEPT !.pc = "start", !.payload = p]]
  /\ ready' = Append(ready, r)
  /\ UNCHANGED <<frame, GENERATE_LOCK, running>>

\* a coroutine returns or raises: the response is set and the loop is free
Finish(t, resp) == [t EXCEPT !.pc = "done", !.result = Some(resp)]

\* Mutant of tts_check_loaded: a request that finds the engine missing loads it.
tts_check_loaded_lazy(r) ==
  /\ Dispatched(r)
  /\ task[r].pc = "start"
  /\ ready' = Tail(ready)
  /\ DEVICE' = IF MODEL = None \/ PROCESSOR = None THEN resolve_device ELSE DEVICE
  /\ MODEL' = Some("model")
  /\ PROCESSOR' = Some("processor")
  /\ task' = [task EXCEPT ![r].pc = "validate", ![r].loaded = TRUE]
  /\ running' = Some(r)
  /\ UNCHANGED <<environ, cuda, health, GENERATE_LOCK, loadlog>>

\* lines 120-121
tts_check_loaded(r) ==
  /\ Dispatched(r)
  /\ task[r].pc = "start"
  /\ ready' = Tail(ready)
  /\ IF MODEL = None \/ PROCESSOR = None
     THEN /\ task' = [task EXCEPT ![r] =
                        Finish(@, Response(503, "Model is not loaded", None, ""))]
          /\ running' = None
     ELSE /\ task' = [task EXCEPT ![r].pc = "validate", ![r].loaded = TRUE]
          /\ running' = Some(r)
  /\ UNCHANGED <<frame, GENERATE_LOCK>>

\* Mutant of tts_validate: payload.text is checked without strip().
tts_validate_unstripped(r) ==
  /\ OnLoop(r)
  /\ task[r].pc = "validate"
  /\ LET text == task[r].payload.text
     IN  IF text = <<>>
         THEN /\ task' = [task EXCEPT ![r] =
                    Finish([@ EXCEPT !.text = text],
                           Response(400, "text must not be empty", None, ""))]
              /\ running' = None
         ELSE IF Len(text) > TEXT_MAX_CHARS
         THEN /\ task' = [task EXCEPT ![r] =
                    Finish([@ EXCEPT !.text = text],
                           Response(400, "text exceeds max length",
                                    Some(TEXT_MAX_CHARS), ""))]
              /\ running' = None
         ELSE /\ task' = [task EXCEPT ![r].pc = "resolve", ![r].text = text]
              /\ UNCHANGED running
  /\ UNCHANGED <<frame, GENERATE_LOCK, ready>>

\* Mutant of tts_validate: the length check is missing.
tts_validate_unbounded(r) ==
  /\ OnLoop(r)
  /\ task[r].pc = "validate"
  /\ LET text == strip(task[r].payload.text)
     IN  IF text = <<>>
         THEN /\ task' = [task EXCEPT ![r] =
                    Finish([@ EXCEPT !.text = text],
                           Response(400, "text must not be empty", None, ""))]
              /\ running' = None
         ELSE /\ task' = [task EXCEPT ![r].pc = "resolve", ![r].text = text]
              /\ UNCHANGED running
  /\ UNCHANGED <<frame, GENERATE_LOCK, ready>>

\* lines 123-127
tts_validate(r) ==
  /\ OnLoop(r)
  /\ task[r].pc = "validate"
  /\ LET text == strip(task[r].payload.text)
     IN  IF text = <<>>
         THEN /\ task' = [task EXCEPT ![r] =
                    Finish([@ EXCEPT !.text = text],
                           Response(400, "text must not be empty", None, ""))]
              /\ running' = None
         ELSE IF Len(text) > TEXT_MAX_CHARS
         THEN /\ task' = [task EXCEPT ![r] =
                    Finish([@ EXCEPT !.text = text],
                           Response(400, "text exceeds max length",
                                    Some(TEXT_MAX_CHARS), ""))]
              /\ running' = None
         ELSE /\ task' = [task EXCEPT ![r].pc = "resolve", ![r].text = text]
              /\ UNCHANGED running
  /\ UNCHANGED <<frame, GENERATE_LOCK, ready>>

\* line 129: (payload.voice or "").strip() or DEFAULT_VOICE
resolve_voice(voice) ==
  LET s == strip(or_empty(voice))
  IN  IF s # <<>> THEN Some(s) ELSE DEFAULT_VOICE

\* line 130: payload.cfgScale if payload.cfgScale and payload.cfgScale > 0 else DEFAULT_CFG_SCALE
resolve_cfg_scale(cfgScale) ==
  IF cfgScale # None /\ float_truthy(cfgScale[1]) /\ float_gt0(cfgScale[1])
  THEN cfgScale[1]
  ELSE DEFAULT_CFG_SCALE

\* Mutant of resolve_max_tokens: the request's value wins whenever it is present.
resolve_max_tokens_present(maxTokens) ==
  IF maxTokens # None THEN maxTokens[1] ELSE DEFAULT_MAX_TOKENS

\* line 131: payload.maxTokens if payload.maxTokens and payload.maxTokens > 0 else DEFAULT_MAX_TOKENS
resolve_max_tokens(maxTokens) ==
  IF maxTokens # None /\ maxTokens[1] # 0 /\ maxTokens[1] > 0
  THEN maxTokens[1]
  ELSE DEFAULT_MAX_TOKENS

\* lines 129-131
tts_resolve(r) ==
  /\ OnLoop(r)
  /\ task[r].pc = "resolve"
  /\ task' = [task EXCEPT ![r].pc = "acquire",
                          ![r].voice = resolve_voice(task[r].payload.voice),
                          ![r].cfg_scale = resolve_cfg_scale(task[r].payload.cfgScale),
                          ![r].max_tokens = resolve_max_tokens(task[r].payload.maxTokens)]
  /\ UNCHANGED <<frame, GENERATE_LOCK, running, ready>>

\* Mutant of tts_acquire: the generation is no longer entered under the lock
\* but after a bare yield to the event loop (await asyncio.sleep(0)).
tts_acquire_yield(r) ==
  /\ OnLoop(r)
  /\ task[r].pc = "acquire"
  /\ task' = [task EXCEPT ![r].pc = "encode"]
  /\ running' = None
  /\ UNCHANGED <<frame, GENERATE_LOCK, ready>>

\* line 134, entry of "async with GENERATE_LOCK": asyncio.Lock.acquire().
\* A free lock with no waiter is taken without suspending.  Otherwise the
\* coroutine queues itself and suspends; once release() has woken it and the
\* loop dispatches it again, it leaves the queue and takes the lock.
tts_acquire(r) ==
  /\ task[r].pc \in {"acquire", "woken"}
  /\ IF task[r].pc = "woken"
     THEN /\ Dispatched(r)
          /\ ready' = Tail(ready)
          /\ running' = Some(r)
          /\ GENERATE_LOCK' = [locked |-> TRUE,
                               waiters |-> Remove(GENERATE_LOCK.waiters, r)]
          /\ task' = [task EXCEPT ![r].pc = "encode", ![r].acquired = @ + 1]
     ELSE /\ OnLoop(r)
          /\ UNCHANGED ready
          /\ IF ~GENERATE_LOCK.locked /\ GENERATE_LOCK.waiters = <<>>
             THEN /\ GENERATE_LOCK' = [GENERATE_LOCK EXCEPT !.locked = TRUE]
                  /\ task' = [task EXCEPT ![r].pc = "encode", ![r].acquired = @ + 1]
                  /\ UNCHANGED running
             ELSE /\ GENERATE_LOCK' =
                       [GENERATE_LOCK EXCEPT !.waiters = Append(@, r)]
                  /\ task' = [task EXCEPT ![r].pc = "waiting"]
                  /\ running' = None
  /\ UNCHANGED frame

\* lines 135-143: PROCESSOR(text=..., voice=..., return_tensors="pt") and the
\* move of the tensors to DEVICE; either may raise.
tts_encode(r) ==
  /\ OnLoop(r)
  /\ task[r].pc = "encode"
  /\ \E out \in Outcomes :
       task' = [task EXCEPT
                  ![r].procCalls = Append(@, [text |-> task[r].text,
                                              voice |-> task[r].voice]),
                  ![r].exc = out,
                  ![r].pc = IF out = None THEN "generate" ELSE "aexit"]
  /\ UNCHANGED <<frame, GENERATE_LOCK, running, ready>>

\* line 148: float() of a float, and line 149: int() of an int, return it.
\* cfg_scale is payload.cfgScale (pydantic has made it a float) or
\* DEFAULT_CFG_SCALE (a float); max_tokens is an int either way.
float_of_float(f) == f
int_of_int(n) == n

\* lines 145-150: MODEL.generate(**inputs, cfg_scale=float(cfg_scale),
\* max_new_tokens=int(max_tokens)); it returns or raises.
tts_generate(r) ==
  /\ OnLoop(r)
  /\ task[r].pc = "generate"
  /\ \E out \in Outcomes :
       task' = [task EXCEPT
                  ![r].genCalls = Append(@, [cfg_scale |-> float_of_float(task[r].cfg_scale),
                                             max_new_tokens |-> int_of_int(task[r].max_tokens)]),
                  ![r].exc = out,
                  ![r].pc = "aexit"]
  /\ UNCHANGED <<frame, GENERATE_LOCK, running, ready>>

\* Mutant of release: the lock is left locked.
release_keeps_locked(lock) == lock

\* asyncio.Lock.release(): unlock, and wake the first waiter (it is made ready
\* and stays in the queue until it runs).
release(lock) == [lock EXCEPT !.locked = FALSE]

\* Mutant of tts_aexit: acquire()/release() written without try/finally, so
\* the lock is released on the normal path only.
tts_aexit_no_finally(r) ==
  /\ OnLoop(r)
  /\ task[r].pc = "aexit"
  /\ GENERATE_LOCK' = IF task[r].exc = None THEN release(GENERATE_LOCK) ELSE GENERATE_LOCK
  /\ task' = [task EXCEPT ![r].pc = IF task[r].exc = None THEN "normalize" ELSE "except"]
  /\ UNCHANGED <<frame, running, ready>>

\* Mutant of tts_aexit: the coroutine awaits (and so gives up the loop) between
\* the release of the lock and the normalisation of the output.
tts_aexit_suspending(r) ==
  /\ OnLoop(r)
  /\ task[r].pc = "aexit"
  /\ GENERATE_LOCK' = release(GENERATE_LOCK)
  /\ task' = [task EXCEPT ![r].pc = IF task[r].exc = None THEN "normalize" ELSE "except"]
  /\ running' = None
  /\ UNCHANGED <<frame, ready>>

\* lines 134-150, exit of "async with GENERATE_LOCK", on return and on raise.
tts_aexit(r) ==
  /\ OnLoop(r)
  /\ task[r].pc = "aexit"
  /\ GENERATE_LOCK' = release(GENERATE_LOCK)
  /\ LET w == GENERATE_LOCK.waiters
         wake == GENERATE_LOCK'.locked = FALSE /\ w # <<>>
                   /\ task[Head(w)].pc = "waiting"
     IN  /\ task' = [x \in Reqs |->
                       IF x = r
                       THEN [task[r] EXCEPT
                               !.pc = IF task[r].exc = None THEN "normalize" ELSE "except"]
                       ELSE IF wake /\ x = Head(w)
                       THEN [task[x] EXCEPT !.pc = "woken"]
                       ELSE task[x]]
         /\ ready' = IF wake THEN Append(ready, Head(w)) ELSE ready
  /\ UNCHANGED <<frame, running>>

\* lines 152-158: speech_outputs[0], conversion to a float32 array, squeeze
tts_normalize(r) ==
  /\ OnLoop(r)
  /\ task[r].pc = "normalize"
  /\ \E out \in Outcomes :
       task' = [task EXCEPT ![r].exc = out,
                            ![r].pc = IF out = None THEN "package" ELSE "except"]
  /\ UNCHANGED <<frame, GENERATE_LOCK, running, ready>>

\* lines 159-163: sampling rate, sf.write, Response(media_type="audio/wav")
tts_package(r) ==
  /\ OnLoop(r)
  /\ task[r].pc = "package"
  /\ \E out \in Outcomes :
       IF out = None
       THEN /\ task' = [task EXCEPT ![r] = Finish(@, Response(200, "", None, ""))]
            /\ running' = None
       ELSE /\ task' = [task EXCEPT ![r].exc = out, ![r].pc = "except"]
            /\ UNCHANGED running
  /\ UNCHANGED <<frame, GENERATE_LOCK, ready>>

\* Mutant of error_response: "except Exception" comes first.
error_response_all_500(e) == Response(500, "TTS generation failed", None, e.msg)

\* lines 164-169: the except clauses, in their order
error_response(e) ==
  IF e.type = "ValueError" THEN Response(400, e.msg, None, "")
  ELSE IF e.type = "HTTPException" THEN Response(e.status, e.msg, None, "")
  ELSE Response(500, "TTS generation failed", None, e.msg)

\* Mutant of tts_except: a failed generation is tried a second time before
\* the error is reported.
tts_except_retry(r) ==
  /\ OnLoop(r)
  /\ task[r].pc = "except"
  /\ IF task[r].acquired = 1 /\ task[r].exc[1].type = "RuntimeError"
     THEN /\ task' = [task EXCEPT ![r].pc = "acquire", ![r].exc = None]
          /\ UNCHANGED running
     ELSE /\ task' = [task EXCEPT ![r] = Finish(@, error_response(task[r].exc[1]))]
          /\ running' = None
  /\ UNCHANGED <<frame, GENERATE_LOCK, ready>>

tts_except(r) ==
  /\ OnLoop(r)
  /\ task[r].pc = "except"
  /\ task' = [task EXCEPT ![r] = Finish(@, error_response(task[r].exc[1]))]
  /\ running' = None
  /\ UNCHANGED <<frame, GENERATE_LOCK, ready>>

\* the response has been sent: the slot is free for the next request
tts_return(r) ==
  /\ task[r].pc = "done"
  /\ task' = [task EXCEPT ![r] = IdleTask]
  /\ UNCHANGED <<frame, GENERATE_LOCK, running, ready>>

\* Mutant of disconnect: the server cancels the handler of a caller that has
\* gone, and the cancellation leaves the "async with" block at once.
disconnect_cancelling(r) ==
  /\ task[r].pc \notin {"idle", "done"}
  /\ task[r].gone = None
  /\ LET held == task[r].pc \in {"encode", "generate", "aexit"}
     IN  /\ task' = [task EXCEPT ![r].gone = Some(held),
                                 ![r].pc = IF held THEN "except" ELSE @,
                                 ![r].exc = IF held THEN Some([type |-> "RuntimeError",
                                                               msg |-> "cancelled",
                                                               status |-> 0])
                                            ELSE @]
         /\ GENERATE_LOCK' = IF held THEN release(GENERATE_LOCK) ELSE GENERATE_LOCK
  /\ UNCHANGED <<frame, running, ready>>

\* lines 118-119: the caller of request r closes its connection.  tts takes
\* the payload only: it holds no Request object, awaits no receive() and
\* polls no is_disconnected(), so nothing it does depends on the event.  gone
\* records that the caller left, and whether r held the lock at that moment.
disconnect(r) ==
  /\ task[r].pc \notin {"idle", "done"}
  /\ task[r].gone = None
  /\ task' = [task EXCEPT ![r].gone =
                 Some(task[r].pc \in {"encode", "generate", "aexit"})]
  /\ UNCHANGED <<frame, GENERATE_LOCK, running, ready>>

\* ------------------------------------------------------------ lines 50-53
InitWith(envs, cudas) ==
  /\ environ \in envs
  /\ cuda \in cudas
  /\ MODEL = None
  /\ PROCESSOR = None
  /\ DEVICE = Cpu
  /\ GENERATE_LOCK = [locked |-> FALSE, waiters |-> <<>>]
  /\ running = None
  /\ ready = <<>>
  /\ task = [r \in Reqs |-> IdleTask]
  /\ health = None
  /\ loadlog = [loads |-> 0, last |-> "none"]

Init == InitWith(Environments, BOOLEAN)

tts(r) ==
  \/ tts_check_loaded(r)
  \/ tts_validate(r)
  \/ tts_resolve(r)
  \/ tts_acquire(r)
  \/ tts_encode(r)
  \/ tts_generate(r)
  \/ tts_aexit(r)
  \/ tts_normalize(r)
  \/ tts_package(r)
  \/ tts_except(r)
  \/ tts_return(r)

Next ==
  \/ ensure_loaded
  \/ healthz
  \/ healthz_return
  \/ \E r \in Reqs : \E p \in Payloads : tts_request(r, p)
  \/ \E r \in Reqs : tts(r)

Spec == Init /\ [][Next]_vars

\* ------------------------------------------------------------ specifications
\* Parameter resolution: one request at a time, every request of the value
\* sets, every environment of the parameter defaults.
InitParams == InitWith(ParamEnvironments, {FALSE})

NextParams ==
  \/ ensure_loaded
  \/ \E p \in AllPayloads : tts_request(1, p)
  \/ tts(1)

SpecParams == InitParams /\ [][NextParams]_vars

\* The event loop dispatches the ready coroutines in FIFO order and a
\* dispatched coroutine runs on; every call it makes returns or raises.
Fairness == \A r \in Reqs : WF_vars(tts(r))

\* The ceiling is 1, so that the requests are blank, valid and too long.
FairInit == InitWith({Env(None, Some(<<"1">>), None, None, None, None)}, {FALSE})

FairSpec == FairInit /\ [][Next]_vars /\ Fairness

\* ------------------------------------------------------------ claims
\* Helpers of the claims, written from the claims' words.
NonSpace(s) == {i \in 1..Len(s) : ~IsSpace(s[i])}
Min(S) == CHOOSE x \in S : \A y \in S : x <= y
Max(S) == CHOOSE x \in S : \A y \in S : x >= y
\* the text between the first and the last character that is not whitespace
Trimmed(s) == IF NonSpace(s) = {} THEN <<>> ELSE SubSeq(s, Min(NonSpace(s)), Max(NonSpace(s)))
Loaded == MODEL # None /\ PROCESSOR # None
Done(r) == task[r].pc = "done"
Status(r) == task[r].result[1].status
\* r is inside processor-encode / MODEL.generate
InEngine(r) == task[r].pc \in {"encode", "generate"}
\* r is in the critical section: between the entry and the exit of the lock
InSection(r) == task[r].pc \in {"encode", "generate", "aexit"}
\* r is in steps 4 to 8 of the pipeline
InGeneration(r) == task[r].pc \in {"encode", "generate", "aexit", "normalize", "package"}
\* r is in flight: requested and not yet answered
InFlight(r) == task[r].pc \notin {"idle", "done"}

\* C1: at most one request is inside the processor-encode / MODEL.generate
\* section at any instant, whatever the number of requests in flight.
C1_MutualExclusion ==
  \A r1, r2 \in Reqs : (InEngine(r1) /\ InEngine(r2)) => r1 = r2

\* C1 witness: one request is inside MODEL.generate while another is in flight.
C1_Witness ==
  \E r1, r2 \in Reqs :
    r1 # r2 /\ task[r1].pc = "generate" /\ InFlight(r2) /\ GENERATE_LOCK.locked

\* C2: the gate is held only while a request is in the critical section: a
\* request that failed in encoding or in generation has released it when it
\* reaches its except clause, and no request waits at a gate nobody will release.
C2_GateReleasedOnFailure ==
  /\ GENERATE_LOCK.locked => \E r \in Reqs : InSection(r)
  /\ \A r \in Reqs :
       (task[r].pc = "except" /\ task[r].acquired > 0) => ~GENERATE_LOCK.locked
  /\ \A r \in Reqs : task[r].pc = "waiting" => \E q \in Reqs : InSection(q)

\* C2 witness: a request whose MODEL.generate raised has reported its error and
\* a later request has acquired the gate.
C2_Witness ==
  \E r1, r2 \in Reqs :
    /\ r1 # r2
    /\ Done(r1) /\ task[r1].exc # None /\ Len(task[r1].genCalls) = 1
    /\ task[r2].pc = "generate" /\ task[r2].acquired = 1

\* C3: steps 4 to 8 (encoding, generation, normalisation, packaging) are
\* executed by at most one request at any instant.
C3_OneGeneration ==
  \A r1, r2 \in Reqs : (InGeneration(r1) /\ InGeneration(r2)) => r1 = r2

\* C3 witness: a request normalises its output, the gate already released,
\* while another request is in flight.
C3_Witness ==
  \E r1, r2 \in Reqs :
    r1 # r2 /\ task[r1].pc = "normalize" /\ ~GENERATE_LOCK.locked /\ InFlight(r2)

\* r never came near the gate, the processor or the engine
NoGate(r) ==
  task[r].acquired = 0 /\ task[r].procCalls = <<>> /\ task[r].genCalls = <<>>
Detail(r) == task[r].result[1].msg
EmptyAfterTrim(r) == Trimmed(task[r].payload.text) = <<>>
TooLong(r) == Len(Trimmed(task[r].payload.text)) > TEXT_MAX_CHARS

\* C4, as claimed: a request whose text is empty after trimming gets a
\* ValidationError (400) in every state of the service, loaded or not.
C4_Original ==
  \A r \in Reqs : (Done(r) /\ EmptyAfterTrim(r)) => Status(r) = 400

\* C4, amended: a request whose text is empty after trimming gets the
\* ValidationError (400, "text must not be empty") when engine and processor
\* are loaded and the NotReadyError (503) when they are not; it is never a
\* GenerationError and it never reaches the gate or the engine.
C4_EmptyText ==
  \A r \in Reqs :
    (Done(r) /\ EmptyAfterTrim(r)) =>
      /\ task[r].loaded => (Status(r) = 400 /\ Detail(r) = "text must not be empty")
      /\ ~task[r].loaded => Status(r) = 503
      /\ Status(r) # 500
      /\ task[r].exc = None
      /\ NoGate(r)

\* C4 witness: with the engine loaded, a blank text has been answered 400.
C4_Witness ==
  \E r \in Reqs : Done(r) /\ EmptyAfterTrim(r) /\ task[r].loaded /\ Status(r) = 400

\* C5: with the engine loaded, a request whose trimmed text is longer than
\* TEXT_MAX_CHARS gets a ValidationError that names the ceiling, and a request
\* that fails validation never acquires or waits on the gate and never calls
\* the processor or the engine.
C5_TooLong ==
  \A r \in Reqs :
    /\ (Done(r) /\ task[r].loaded /\ TooLong(r)) =>
         /\ Status(r) = 400
         /\ Detail(r) = "text exceeds max length"
         /\ task[r].result[1].num = Some(TEXT_MAX_CHARS)
    /\ (task[r].loaded /\ (TooLong(r) \/ EmptyAfterTrim(r))) =>
         (NoGate(r) /\ task[r].pc \in {"validate", "done"})

\* C5 witness: a too long text has been answered 400 with the ceiling while
\* another request is in flight.
C5_Witness ==
  \E r1, r2 \in Reqs :
    /\ r1 # r2 /\ InFlight(r2)
    /\ Done(r1) /\ task[r1].loaded /\ TooLong(r1) /\ Status(r1) = 400
    /\ task[r1].result[1].num = Some(1)

\* C6, as claimed: every failure in steps 4 to 8, whatever the exception, is
\* reported as a GenerationError (500) that wraps the cause message.
C6_Original ==
  \A r \in Reqs :
    (Done(r) /\ task[r].exc # None) =>
      (Status(r) = 500 /\ task[r].result[1].cause = task[r].exc[1].msg)

\* C6, amended: a failure in steps 4 to 8 is reported as a GenerationError
\* (500) wrapping the cause message unless the exception is a ValueError,
\* which is reported as a client fault (400) with the exception's message, or
\* an HTTPException, which is passed on with its own status.
C6_ErrorMapping ==
  \A r \in Reqs :
    (Done(r) /\ task[r].exc # None) =>
      LET e == task[r].exc[1]
      IN  /\ e.type \notin {"ValueError", "HTTPException"} =>
               /\ Status(r) = 500
               /\ Detail(r) = "TTS generation failed"
               /\ task[r].result[1].cause = e.msg
          /\ e.type = "ValueError" => (Status(r) = 400 /\ Detail(r) = e.msg)
          /\ e.type = "HTTPException" => (Status(r) = e.status /\ Detail(r) = e.msg)

\* C6 witness: MODEL.generate raised a RuntimeError and the request was
\* answered 500; another request's ValueError was answered 400.
C6_Witness ==
  \E r1, r2 \in Reqs :
    /\ Done(r1) /\ task[r1].exc # None /\ task[r1].exc[1].type = "RuntimeError"
    /\ Len(task[r1].genCalls) = 1 /\ Status(r1) = 500
    /\ Done(r2) /\ task[r2].exc # None /\ task[r2].exc[1].type = "ValueError"
    /\ Status(r2) = 400

\* C7: the resolved parameters follow the precedence request value (present
\* and > 0; trimmed and non-empty for the voice), else process default (else
\* unset, for the voice), and the processor and the engine get these values.
ExpectedCfgScale(p) ==
  IF p.cfgScale # None /\ p.cfgScale[1].tag = "fin" /\ p.cfgScale[1].v > 0
  THEN p.cfgScale[1] ELSE DEFAULT_CFG_SCALE
ExpectedMaxTokens(p) ==
  IF p.maxTokens # None /\ p.maxTokens[1] > 0 THEN p.maxTokens[1] ELSE DEFAULT_MAX_TOKENS
ExpectedVoice(p) ==
  IF p.voice # None /\ Trimmed(p.voice[1]) # <<>> THEN Some(Trimmed(p.voice[1]))
  ELSE DEFAULT_VOICE
C7_ParameterResolution ==
  \A r \in Reqs :
    LET p == task[r].payload
    IN  /\ (task[r].pc = "acquire" \/ task[r].acquired > 0) =>
             /\ task[r].cfg_scale = ExpectedCfgScale(p)
             /\ task[r].max_tokens = ExpectedMaxTokens(p)
             /\ task[r].voice = ExpectedVoice(p)
        /\ \A i \in 1..Len(task[r].genCalls) :
             task[r].genCalls[i] = [cfg_scale |-> ExpectedCfgScale(p),
                                    max_new_tokens |-> ExpectedMaxTokens(p)]
        /\ \A i \in 1..Len(task[r].procCalls) :
             task[r].procCalls[i].voice = ExpectedVoice(p)

\* C7 witness: cfgScale 5.0 won over the default, maxTokens 0 and a blank
\* voice fell back to the process defaults, and the engine was called with them.
C7_Witness ==
  \E r \in Reqs :
    /\ Done(r) /\ Status(r) = 200
    /\ task[r].payload.cfgScale = Some(Fl(5))
    /\ task[r].payload.maxTokens = Some(0)
    /\ task[r].payload.voice = Some(<<" ">>)
    /\ task[r].genCalls = <<[cfg_scale |-> Fl(5), max_new_tokens |-> 9]>>
    /\ task[r].procCalls[1].voice = Some(<<"d">>)

\* C8: a health() call leaves MODEL, PROCESSOR, DEVICE and the gate as they
\* are, and reports ready exactly when engine and processor are loaded, with
\* the device resolved at load time and the configured model identifier.
C8_HealthReadOnly ==
  [][(health = None /\ health' # None) =>
       /\ UNCHANGED <<MODEL, PROCESSOR, DEVICE, GENERATE_LOCK>>
       /\ health'[1].ok = (MODEL # None /\ PROCESSOR # None)
       /\ health'[1].device = DEVICE
       /\ health'[1].ok => health'[1].device = resolve_device
       /\ health'[1].model = MODEL_ID]_vars

\* C8 witness: after a successful synthesize, health() has reported ready on
\* the accelerated device.
C8_Witness ==
  /\ health # None /\ health[1].ok /\ health[1].device = Cuda
  /\ \E r \in Reqs : Done(r) /\ Status(r) = 200

\* C9: a synthesize call that finds the engine or the processor not loaded
\* returns NotReadyError (503) at once: no load, no gate, no processor or
\* engine call, MODEL, PROCESSOR, DEVICE and the gate unchanged.
C9_NotReady ==
  [][\A r \in Reqs :
       (task[r].pc = "start" /\ task'[r].pc # "start"
          /\ (MODEL = None \/ PROCESSOR = None)) =>
         /\ task'[r].pc = "done"
         /\ task'[r].result # None /\ task'[r].result[1].status = 503
         /\ task'[r].acquired = 0
         /\ task'[r].procCalls = <<>> /\ task'[r].genCalls = <<>>
         /\ UNCHANGED <<MODEL, PROCESSOR, DEVICE, GENERATE_LOCK>>]_vars

\* C9 witness: a load has failed (DEVICE was resolved, MODEL is unset) and a
\* request has been answered 503.
C9_Witness ==
  /\ MODEL = None /\ DEVICE = Cuda
  /\ \E r \in Reqs : Done(r) /\ Status(r) = 503

\* C10: with the engine loaded, a request with a valid text is eventually
\* answered (a waveform or a typed error), and a request at the gate
\* eventually acquires it.
ValidText(r) == ~EmptyAfterTrim(r) /\ ~TooLong(r)
C10_ResponseLiveness ==
  \A r \in Reqs :
    /\ (task[r].pc = "start" /\ Loaded /\ ValidText(r))
         ~> (Done(r) /\ task[r].result # None)
    /\ (task[r].pc \in {"acquire", "waiting"}) ~> (task[r].acquired > 0)

\* C10 witness: with the engine loaded, a valid request is pending behind
\* another one that is inside MODEL.generate.
C10_Witness ==
  \E r1, r2 \in Reqs :
    /\ r1 # r2 /\ Loaded
    /\ task[r1].pc = "generate"
    /\ task[r2].pc = "start" /\ ValidText(r2)

\* C11: once engine and processor are loaded, no step (ensure_loaded, health,
\* synthesize) changes MODEL, PROCESSOR or DEVICE or loads again: the engine is
\* loaded successfully at most once.
C11_LoadedOnce ==
  [][/\ Loaded => UNCHANGED <<MODEL, PROCESSOR, DEVICE, loadlog>>
     /\ loadlog'.loads <= 1]_vars

\* C11 witness: the engine is loaded, on the accelerated device, and a request
\* has been served since.
C11_Witness ==
  /\ Loaded /\ loadlog.loads = 1 /\ DEVICE = Cuda
  /\ \E r \in Reqs : Done(r) /\ Status(r) = 200

LoadFailed == loadlog.last \in {"model_raises", "processor_raises"}

\* C12: in every state a request or health() can observe, MODEL and PROCESSOR
\* are both set or both unset, and a load that failed left both unset.
C12_LoadedTogether ==
  /\ (MODEL = None) <=> (PROCESSOR = None)
  /\ LoadFailed => (MODEL = None /\ PROCESSOR = None)

\* C12 witness: the load of the processor has raised, and health() reports
\* not ready.
C12_Witness ==
  /\ loadlog.last = "processor_raises"
  /\ MODEL = None /\ PROCESSOR = None
  /\ health # None /\ ~health[1].ok

\* C13, as claimed: DEVICE is published with MODEL and PROCESSOR, after the
\* loads have succeeded: a step that leaves the engine not loaded (a load that
\* raised) leaves DEVICE as it was.
C13_DevicePublishedLast ==
  [][~(MODEL' # None /\ PROCESSOR' # None) => DEVICE' = DEVICE]_vars

\* ------------------------------------------------------------ device selection
\* KUGELAUDIO_DEVICE: unset, empty, blank, cpu, accelerated names, other strings
DeviceOverrides ==
  {None, Some(<<>>), Some(<<" ">>), Some(<<"c", "p", "u">>), Some(<<"C", "P", "U", " ">>),
   Some(<<"c", "u", "d", "a">>), Some(<<" ", "C", "U", "D", "A">>),
   Some(<<"c", "u", "d", "a", ":", "1">>), Some(<<"m", "p", "s">>), Some(<<"x">>)}

DeviceEnvironments == {Env(None, None, None, None, None, d) : d \in DeviceOverrides}

InitDevice == InitWith(DeviceEnvironments, BOOLEAN)

NextDevice ==
  \/ ensure_loaded
  \/ healthz
  \/ healthz_return
  \/ \E p \in Payloads : tts_request(1, p)
  \/ tts(1)

SpecDevice == InitDevice /\ [][NextDevice]_vars

\* the override as the policy reads it, and the names of the accelerated device
Override == lower(Trimmed(IF environ.DEVICE = None THEN <<>> ELSE environ.DEVICE[1]))
IsAccelerated(d) == Len(d) >= 4 /\ SubSeq(d, 1, 4) = <<"c", "u", "d", "a">>
LoadTried == loadlog.last # "none"

\* C14, as claimed: whatever the override and the hardware, the device that
\* ensure_loaded resolves is cpu or the accelerated device; it is accelerated
\* only if the hardware is available, cpu when the override asks for an
\* unavailable accelerated device, and without override accelerated exactly
\* when it is available.
C14_Original ==
  LoadTried =>
    /\ DEVICE = Cpu \/ IsAccelerated(DEVICE)
    /\ IsAccelerated(DEVICE) => cuda
    /\ (IsAccelerated(Override) /\ ~cuda) => DEVICE = Cpu
    /\ Override = <<>> => (DEVICE = (IF cuda THEN Cuda ELSE Cpu))

\* C14, amended: without override the device is cuda exactly when CUDA is
\* available, else cpu; an override naming a cuda device is returned when
\* CUDA is available and replaced by cpu when it is not; any other override
\* is returned as it is (trimmed, lower case), whether or not it names a
\* device; a cuda device is returned only if CUDA is available.
C14_DevicePolicy ==
  LoadTried =>
    /\ Override = <<>> => (DEVICE = (IF cuda THEN Cuda ELSE Cpu))
    /\ IsAccelerated(Override) => (DEVICE = (IF cuda THEN Override ELSE Cpu))
    /\ (Override # <<>> /\ ~IsAccelerated(Override)) => DEVICE = Override
    /\ IsAccelerated(DEVICE) => cuda

\* C14 witness: the override asks for CUDA, CUDA is not available, and
\* ensure_loaded has resolved cpu.
C14_Witness ==
  /\ LoadTried /\ ~cuda
  /\ environ.DEVICE = Some(<<" ", "C", "U", "D", "A">>)
  /\ DEVICE = Cpu

\* r has resolved its parameters (lines 129-131)
Resolved(r) == task[r].pc = "acquire" \/ task[r].acquired > 0
NoRequestVoice(r) ==
  task[r].payload.voice = None \/ Trimmed(task[r].payload.voice[1]) = <<>>
NoDefaultVoice ==
  environ.DEFAULT_VOICE = None \/ Trimmed(environ.DEFAULT_VOICE[1]) = <<>>
NaNDefaultCfgScale ==
  /\ environ.DEFAULT_CFG_SCALE # None
  /\ lower(Trimmed(environ.DEFAULT_CFG_SCALE[1])) = <<"n", "a", "n">>

InitGate == InitWith({Env(None, Some(<<"1">>), None, None, None, None)}, {FALSE})

NextGate ==
  \/ Next
  \/ \E r \in Reqs : disconnect(r)

SpecGate == InitGate /\ [][NextGate]_vars

\* the step frees the gate
GateFreed == GENERATE_LOCK.locked /\ ~GENERATE_LOCK'.locked
\* r's engine invocation is over: generate has been called and has returned or
\* raised, or the preparation of its inputs has raised
EngineOver(r) ==
  /\ task[r].pc = "aexit"
  /\ task[r].exc # None \/ Len(task[r].genCalls) = 1
\* the step is the disconnection of r's caller
Leaves(r) == task[r].gone = None /\ task'[r].gone # None

\* C16: the gate is freed only by a step of the request that holds it, after
\* its engine invocation has returned or raised; while a request is inside the
\* engine no step frees the gate or takes the request out of the guarded
\* section, and a caller's disconnection changes neither the gate nor the
\* progress of any request.
C16_GateReleasedByHolder ==
  [][/\ GateFreed =>
          \E r \in Reqs : /\ OnLoop(r) /\ InSection(r) /\ EngineOver(r)
                          /\ task'[r].pc \in {"normalize", "except"}
     /\ \A r \in Reqs :
          InEngine(r) => /\ GENERATE_LOCK'.locked
                         /\ task'[r].pc \in {"encode", "generate", "aexit"}
     /\ \A r \in Reqs :
          Leaves(r) => /\ GENERATE_LOCK' = GENERATE_LOCK
                       /\ task' = [task EXCEPT ![r].gone = task'[r].gone]
                       /\ UNCHANGED <<running, ready>>]_vars

\* C16 witness: a caller left while its request held the gate inside the
\* engine; the generation ran once to its end, the gate was released after it
\* and the response is 200.
C16_Witness ==
  \E r \in Reqs :
    /\ Done(r) /\ Status(r) = 200
    /\ task[r].gone = Some(TRUE)
    /\ Len(task[r].genCalls) = 1 /\ task[r].acquired = 1
    /\ ~GENERATE_LOCK.locked

\* r has failed: an exception is pending, or its response is an error
Failed(r) ==
  \/ task[r].pc # "done" /\ task[r].exc # None
  \/ Done(r) /\ Status(r) >= 400

\* C17: a request takes the gate at most once and calls the generation routine
\* (and the processor) at most once; once it has failed, whether not ready, at
\* validation or in generation, it takes no gate and makes no engine call any
\* more and only proceeds to its response; a response is final.
C17_NoRetry ==
  [][\A r \in Reqs :
       /\ task'[r].acquired <= 1
       /\ Len(task'[r].genCalls) <= 1
       /\ Len(task'[r].procCalls) <= 1
       /\ Failed(r) /\ task'[r].pc # "idle" =>
            /\ task'[r].pc \in {task[r].pc, "except", "done"}
            /\ task'[r].acquired = task[r].acquired
            /\ task'[r].genCalls = task[r].genCalls
            /\ task'[r].procCalls = task[r].procCalls
            /\ Failed(r)'
       /\ Done(r) => task'[r].pc \in {"done", "idle"}
       /\ Done(r) /\ Done(r)' => task'[r].result = task[r].result]_vars

\* C17 witness: a request has failed at or after its generate call and has
\* ended with 500 after one acquisition of the gate, one processor call and one
\* generate call.
C17_Witness ==
  \E r \in Reqs :
    /\ Done(r) /\ Status(r) = 500
    /\ task[r].exc # None /\ task[r].exc[1].type = "RuntimeError"
    /\ task[r].acquired = 1
    /\ Len(task[r].procCalls) = 1 /\ Len(task[r].genCalls) = 1

====
